---- MODULE Spec2Model ----
(***************************************************************************)
(* bam2tcc: alignment-to-EC resolution (sam_io.cpp), the sharded SAM/BAM   *)
(* reader (readSAM / readSAMHelp), the GTF transcript numbering and its    *)
(* reconciliation with a transcriptome (kallisto_util.cpp), and the stages *)
(* of main (main.cpp), built with GENOMEBAM_DEBUG = 1 and DEBUG = 0.       *)
(***************************************************************************)
EXTENDS Integers, Sequences, FiniteSets, Bags, TLC

VARIABLES
    arg,        \* the call under study and its arguments
    ret,        \* its return value, Idle until it returns
    rsam,       \* readSAM's locals: lines, all_same, rapmap, join position
    threads,    \* the readSAMHelp workers readSAM launched
    matrix,     \* TCC_Matrix: EC string -> row of per-sample counters
    locks,      \* rows of the matrix whose mutex is held
    calls,      \* history: the getReadEC calls made, by record range
    gtf,        \* transcript numbering: get_index_to_seqid's position,
                \* transcript_count and map; get_index_to_kallisto_index's
                \* m1, m2, index, unfound and map
    sink,       \* the unmatched output file: header and records written
    prog        \* main: position, locals, files written

vars == <<arg, ret, rsam, threads, matrix, locks, calls, gtf, sink, prog>>

readerVars == <<rsam, threads, matrix, locks, calls>>

(***************************************************************************)
(* Bounds of the model.                                                    *)
(***************************************************************************)
MaxPos == 2
MaxCigarLen == 3
MaxCount == 2

Idle == [fn |-> "none"]

EmptyMap == [k \in {} |-> 0]

EmptyMatrix == EmptyMap

\* no readSAM call is in progress
NoReader ==
    /\ rsam = Idle
    /\ threads = <<>>
    /\ matrix = EmptyMatrix
    /\ locks = {}
    /\ calls = EmptyBag

NoIndexing == gtf = Idle

\* no main is running, and no unmatched output file exists
NoMain == prog = Idle /\ sink = Idle

(***************************************************************************)
(* Standard-library algorithms the code calls on vector<int>.              *)
(***************************************************************************)
RECURSIVE sort_insert(_, _)
sort_insert(s, x) ==
    IF s = <<>> THEN <<x>>
    ELSE IF x <= Head(s) THEN <<x>> \o s
    ELSE <<Head(s)>> \o sort_insert(Tail(s), x)

RECURSIVE sort(_)
sort(s) == IF s = <<>> THEN <<>> ELSE sort_insert(sort(Tail(s)), Head(s))

RECURSIVE set_intersection(_, _)
set_intersection(a, b) ==
    IF a = <<>> \/ b = <<>> THEN <<>>
    ELSE IF Head(a) < Head(b) THEN set_intersection(Tail(a), b)
    ELSE IF Head(b) < Head(a) THEN set_intersection(a, Tail(b))
    ELSE <<Head(a)>> \o set_intersection(Tail(a), Tail(b))

\* erase(unique(...)) left out: duplicates stay
unique_none(s) == s

RECURSIVE unique(_)
unique(s) ==
    IF Len(s) <= 1 THEN s
    ELSE IF s[1] = s[2] THEN unique(Tail(s))
    ELSE <<s[1]>> \o unique(Tail(s))

(***************************************************************************)
(* Interval model and CIGAR splitter.                                      *)
(***************************************************************************)
Exon(start, end) == [start |-> start, end |-> end, transcripts |-> <<>>]

RefOps == {"M", "D", "=", "X"}
OtherOps == {"I", "S", "H", "P"}
CigarOps == RefOps \cup {"N"} \cup OtherOps

RECURSIVE cigar_loop(_, _, _, _, _)
cigar_loop(cigar, i, start, end, exons) ==
    IF i > Len(cigar) THEN [start |-> start, end |-> end, exons |-> exons]
    ELSE IF cigar[i].operation \in {"M", "D", "=", "X"}
         THEN cigar_loop(cigar, i + 1, start, end + cigar[i].count, exons)
    ELSE IF cigar[i].operation = "N"
         THEN cigar_loop(cigar, i + 1, end + cigar[i].count,
                         end + cigar[i].count, Append(exons, Exon(start, end)))
    ELSE cigar_loop(cigar, i + 1, start, end, exons)

get_alignment_exon_positions_noN(r) ==
    LET w == cigar_loop(r.cigar, 1, r.beginPos, r.beginPos, <<>>)
    IN  <<Exon(r.beginPos, w.end)>>

get_alignment_exon_positions(r) ==
    LET w == cigar_loop(r.cigar, 1, r.beginPos, r.beginPos, <<>>)
    IN  Append(w.exons, Exon(w.start, w.end))

(***************************************************************************)
(* Annotation lookup and the EC of one alignment.                          *)
(***************************************************************************)
\* lower() of util.hpp on the contig names the model uses
lower(s) ==
    CASE s = "CHR1" -> "chr1"
      [] s = "Chr2" -> "chr2"
      [] OTHER -> s

\* contigNames(cont): the @SQ names of the SAM header, indexed by rID
contigNames == <<"CHR1", "Chr2">>

\* the strict-splice test of the !GENOMEBAM_DEBUG build
exon_hit_strict(chrom_i, read_exons, j) ==
    /\ read_exons[j].start >= chrom_i.start
    /\ read_exons[j].end <= chrom_i.end
    /\ (j = 1 \/ read_exons[j].start = chrom_i.start)
    /\ (j = Len(read_exons) \/ read_exons[j].end = chrom_i.end)

exon_hit(chrom_i, read_exons, j) ==
    /\ read_exons[j].start >= chrom_i.start
    /\ read_exons[j].end <= chrom_i.end

RECURSIVE chrom_loop(_, _, _, _)
chrom_loop(chrom, i, read_exons, j) ==
    IF i > Len(chrom) THEN <<>>
    ELSE (IF exon_hit(chrom[i], read_exons, j)
          THEN chrom[i].transcripts ELSE <<>>)
         \o chrom_loop(chrom, i + 1, read_exons, j)

get_alignment_exon_transcripts(chrom, read_exons) ==
    [j \in 1..Len(read_exons) |->
        [read_exons[j] EXCEPT !.transcripts =
            read_exons[j].transcripts \o chrom_loop(chrom, 1, read_exons, j)]]

RECURSIVE inter_loop(_, _, _)
inter_loop(read_exons, i, inter) ==
    IF i > Len(read_exons) THEN inter
    ELSE inter_loop(read_exons, i + 1,
                    set_intersection(inter, sort(read_exons[i].transcripts)))

getEC(exons, rec) ==
    LET name == lower(contigNames[rec.rID + 1])
    IN  IF name \notin DOMAIN exons THEN <<>>
        ELSE LET read_exons == get_alignment_exon_transcripts(
                                  exons[name], get_alignment_exon_positions(rec))
             IN  unique(inter_loop(read_exons, 2, sort(read_exons[1].transcripts)))

(***************************************************************************)
(* The EC of a read: curr[1] holds the alignments of the first segment     *)
(* (curr[0] in the code), curr[2] those of the last segment (curr[1]).     *)
(***************************************************************************)
\* one pass of a segment loop: the ECs of the mapped alignments, appended to
\* the reverse or the forward list by the RC flag
RECURSIVE segment_loop(_, _, _, _, _)
segment_loop(exons, seg, i, rapmap, acc) ==
    IF i > Len(seg) THEN acc
    ELSE IF seg[i].flagUnmapped
         THEN segment_loop(exons, seg, i + 1, rapmap, acc)
    ELSE LET temp == IF rapmap THEN <<seg[i].rID>> ELSE getEC(exons, seg[i])
         IN  IF seg[i].flagRC
             THEN segment_loop(exons, seg, i + 1, rapmap,
                               [acc EXCEPT !.reverse = @ \o temp])
             ELSE segment_loop(exons, seg, i + 1, rapmap,
                               [acc EXCEPT !.forward = @ \o temp])

\* a pairing step that joins the two segments of a paired read
combine_ECs_union(paired, s0, s1) ==
    IF paired
    THEN s0.forward \o s0.reverse \o s1.forward \o s1.reverse
    ELSE IF (s0.forward # <<>> \/ s0.reverse # <<>>)
            /\ (s1.forward # <<>> \/ s1.reverse # <<>>)
         THEN set_intersection(sort(s0.forward \o s0.reverse),
                               sort(s1.forward \o s1.reverse))
         ELSE IF s0.forward = <<>> /\ s0.reverse = <<>>
              THEN s1.forward \o s1.reverse
              ELSE s0.forward \o s0.reverse

\* the pairing step as built (GENOMEBAM_DEBUG = 1): `paired` is not read
combine_ECs(paired, s0, s1) ==
    IF (s0.forward # <<>> \/ s0.reverse # <<>>)
       /\ (s1.forward # <<>> \/ s1.reverse # <<>>)
    THEN set_intersection(sort(s0.forward \o s0.reverse),
                          sort(s1.forward \o s1.reverse))
    ELSE IF s0.forward = <<>> /\ s0.reverse = <<>>
         THEN s1.forward \o s1.reverse
         ELSE s0.forward \o s0.reverse

getReadEC(exons, curr, rapmap, paired) ==
    IF paired /\ (Len(curr[1]) = 0 \/ Len(curr[2]) = 0) THEN <<>>
    ELSE LET none == [forward |-> <<>>, reverse |-> <<>>]
             s0 == segment_loop(exons, curr[1], 1, rapmap, none)
             s1 == segment_loop(exons, curr[2], 1, rapmap, none)
         IN  unique(sort(combine_ECs(paired, s0, s1)))

(***************************************************************************)
(* Specification of the CIGAR splitter alone: one alignment record with a  *)
(* bounded position and CIGAR, then the call.                              *)
(***************************************************************************)
CigarElems == [operation : CigarOps, count : 1..MaxCount]
Cigars == UNION {[1..n -> CigarElems] : n \in 0..MaxCigarLen}

InitCigar ==
    /\ \E p \in 0..MaxPos, c \in Cigars :
          arg = [fn |-> "get_alignment_exon_positions",
                 rec |-> [beginPos |-> p, cigar |-> c]]
    /\ ret = Idle
    /\ NoReader
    /\ NoMain
    /\ NoIndexing

CallPositions ==
    /\ arg.fn = "get_alignment_exon_positions"
    /\ ret = Idle
    /\ ret' = [fn |-> arg.fn, exons |-> get_alignment_exon_positions(arg.rec)]
    /\ UNCHANGED <<gtf, sink, prog, arg, readerVars>>

NextCigar == CallPositions

SpecCigar == InitCigar /\ [][NextCigar]_vars

(***************************************************************************)
(* Specification of getEC alone: a bounded annotation index holding the    *)
(* chromosome chr1, and one alignment record on contig 0 (CHR1) or 1       *)
(* (Chr2, not annotated).                                                  *)
(***************************************************************************)
ExonStarts == {0, 2}
ExonLens == {2, 4}
TrVecs == {<<0>>, <<1, 0>>}
ExonPool ==
    {[start |-> s, end |-> s + d, transcripts |-> t] :
        s \in ExonStarts, d \in ExonLens, t \in TrVecs}
ChromTables == UNION {[1..n -> ExonPool] : n \in {0, 1, 2}}

EcOps == {"M", "N", "S"}
EcCounts == {1, 2}
EcCigars ==
    UNION {[1..n -> [operation : EcOps, count : EcCounts]] : n \in 0..MaxCigarLen}

InitGetEC ==
    /\ \E t \in ChromTables, id \in {0, 1}, p \in 0..MaxPos, c \in EcCigars :
          arg = [fn |-> "getEC",
                 exons |-> [n \in {"chr1"} |-> t],
                 rec |-> [rID |-> id, beginPos |-> p, cigar |-> c]]
    /\ ret = Idle
    /\ NoReader
    /\ NoMain
    /\ NoIndexing

CallGetEC ==
    /\ arg.fn = "getEC"
    /\ ret = Idle
    /\ ret' = [fn |-> arg.fn, ec |-> getEC(arg.exons, arg.rec)]
    /\ UNCHANGED <<gtf, sink, prog, arg, readerVars>>

NextGetEC == CallGetEC

SpecGetEC == InitGetEC /\ [][NextGetEC]_vars

Range(s) == {s[i] : i \in 1..Len(s)}

StrictlyAscending(s) == \A i \in 1..(Len(s) - 1) : s[i] < s[i + 1]

\* the transcripts t such that every read interval of rec lies inside at
\* least one exon of chrom whose transcript list holds t
Compatible(chrom, rec) ==
    LET r == get_alignment_exon_positions(rec)
        all == UNION {Range(chrom[i].transcripts) : i \in 1..Len(chrom)}
    IN  {t \in all :
            \A j \in 1..Len(r) :
                \E i \in 1..Len(chrom) :
                    /\ r[j].start >= chrom[i].start
                    /\ r[j].end <= chrom[i].end
                    /\ t \in Range(chrom[i].transcripts)}

\* C7: getEC returns [] when the lower-cased contig is not in the annotation
\* index; otherwise the strictly ascending list of exactly the transcripts
\* compatible with every read interval by containment alone (no endpoint
\* coincidence is required).
C7_GetEC ==
    (ret # Idle /\ ret.fn = "getEC") =>
        LET name == lower(contigNames[arg.rec.rID + 1])
        IN  IF name \notin DOMAIN arg.exons THEN ret.ec = <<>>
            ELSE /\ StrictlyAscending(ret.ec)
                 /\ Range(ret.ec) = Compatible(arg.exons[name], arg.rec)

\* witness of C7: a split alignment with two non-empty intervals on an
\* annotated contig got a two-transcript EC although every exon starts
\* before the alignment does (no endpoint coincides at the start)
C7_Witness ==
    /\ ret # Idle
    /\ ret.fn = "getEC"
    /\ arg.rec.rID = 0
    /\ LET r == get_alignment_exon_positions(arg.rec)
       IN  Len(r) = 2 /\ \A j \in 1..2 : r[j].start < r[j].end
    /\ Len(ret.ec) = 2
    /\ \A i \in 1..Len(arg.exons["chr1"]) :
          arg.exons["chr1"][i].start < arg.rec.beginPos

NoRefOp(cigar) == \A i \in 1..Len(cigar) : cigar[i].operation \in OtherOps

\* C9: an alignment whose CIGAR holds no reference-consuming operation gets
\* the empty EC from getEC, whatever its position and the exons of its
\* chromosome.
C9_Degenerate ==
    (ret # Idle /\ ret.fn = "getEC" /\ NoRefOp(arg.rec.cigar)) => ret.ec = <<>>

(***************************************************************************)
(* Specification of getReadEC alone: a fixed annotation index, and a read  *)
(* group whose two segment buckets hold up to MaxAlign alignments each.    *)
(***************************************************************************)
MaxAlign == 2

\* chr1: transcripts 0 and 1 over [0,4), transcripts 1 and 2 over [2,6)
Annotation ==
    [n \in {"chr1"} |->
        <<[start |-> 0, end |-> 4, transcripts |-> <<0, 1>>],
          [start |-> 2, end |-> 6, transcripts |-> <<1, 2>>]>>]

TwoM == <<[operation |-> "M", count |-> 2]>>

\* alignments with the ECs [0,1] (pos 0), [1,2] (pos 4) and [] (contig Chr2),
\* on either strand, and an unmapped record
AlignPool ==
    {[flagUnmapped |-> FALSE, flagRC |-> rc, rID |-> a[1], beginPos |-> a[2],
      cigar |-> TwoM] : rc \in BOOLEAN, a \in {<<0, 0>>, <<0, 4>>, <<1, 0>>}}
    \cup {[flagUnmapped |-> TRUE, flagRC |-> FALSE, rID |-> 0, beginPos |-> 0,
           cigar |-> <<>>]}

SegLists == UNION {[1..n -> AlignPool] : n \in 0..MaxAlign}

InitReadEC ==
    /\ \E c0 \in SegLists, c1 \in SegLists, rm \in BOOLEAN, pd \in BOOLEAN :
          /\ c0 # <<>> \/ c1 # <<>>
          /\ arg = [fn |-> "getReadEC", exons |-> Annotation,
                    curr |-> <<c0, c1>>, rapmap |-> rm, paired |-> pd]
    /\ ret = Idle
    /\ NoReader
    /\ NoMain
    /\ NoIndexing

CallGetReadEC ==
    /\ arg.fn = "getReadEC"
    /\ ret = Idle
    /\ ret' = [fn |-> arg.fn,
               ec |-> getReadEC(arg.exons, arg.curr, arg.rapmap, arg.paired)]
    /\ UNCHANGED <<gtf, sink, prog, arg, readerVars>>

NextReadEC == CallGetReadEC

SpecReadEC == InitReadEC /\ [][NextReadEC]_vars

HasMapped(seg) == \E i \in 1..Len(seg) : ~seg[i].flagUnmapped

\* the union, as a set, of the alignment ECs of a segment's mapped alignments
SegmentUnion(exons, seg, rapmap) ==
    UNION {IF rapmap THEN {seg[i].rID} ELSE Range(getEC(exons, seg[i])) :
              i \in {k \in 1..Len(seg) : ~seg[k].flagUnmapped}}

ReadECReturned == ret # Idle /\ ret.fn = "getReadEC"

\* C4: in paired mode, when both segments hold a mapped alignment, getReadEC
\* returns exactly A \cap B (A, B the unions of the alignment ECs of segment
\* 0 and of segment 1), hence [] when A or B is empty.
C4_PairedIntersection ==
    (ReadECReturned /\ arg.paired
        /\ HasMapped(arg.curr[1]) /\ HasMapped(arg.curr[2])) =>
        Range(ret.ec) = SegmentUnion(arg.exons, arg.curr[1], arg.rapmap)
                          \cap SegmentUnion(arg.exons, arg.curr[2], arg.rapmap)

\* C5: in paired mode getReadEC returns [] whenever a segment has no mapped
\* alignment, be it without any record or with unmapped records only.
C5_OrphanSuppressed ==
    (ReadECReturned /\ arg.paired
        /\ (~HasMapped(arg.curr[1]) \/ ~HasMapped(arg.curr[2]))) =>
        ret.ec = <<>>

\* C6: in unpaired mode getReadEC returns the sorted duplicate-free union of
\* the alignment ECs of segment 0, whatever segment 1 holds; segment 1's ECs
\* are used instead only when segment 0 gave none.
C6_UnpairedUnion ==
    (ReadECReturned /\ ~arg.paired) =>
        LET A == SegmentUnion(arg.exons, arg.curr[1], arg.rapmap)
            B == SegmentUnion(arg.exons, arg.curr[2], arg.rapmap)
        IN  /\ StrictlyAscending(ret.ec)
            /\ Range(ret.ec) = IF A = {} THEN B ELSE A

(***************************************************************************)
(* Helpers of the CIGAR claims: the N operations of a CIGAR and the        *)
(* reference length between two of them.                                   *)
(***************************************************************************)
NIdx(cigar) == {i \in 1..Len(cigar) : cigar[i].operation = "N"}

\* index of the k-th N operation (k >= 1); 0 for k = 0, Len + 1 past the last
NthN(cigar, k) ==
    IF k = 0 THEN 0
    ELSE IF k > Cardinality(NIdx(cigar)) THEN Len(cigar) + 1
    ELSE CHOOSE i \in NIdx(cigar) :
            Cardinality({j \in NIdx(cigar) : j < i}) = k - 1

RECURSIVE RefLen(_, _, _)
RefLen(cigar, lo, hi) ==
    IF lo > hi THEN 0
    ELSE (IF cigar[lo].operation \in RefOps THEN cigar[lo].count ELSE 0)
         + RefLen(cigar, lo + 1, hi)

\* C8: get_alignment_exon_positions yields a non-empty interval list: a CIGAR
\* with k N operations gives exactly k + 1 intervals; the first starts at pos,
\* each interval's length is the sum of the M/D/=/X counts between two N
\* operations (I, S, H, P add nothing), the next interval starts at
\* end + oplen of the N, and the intervals are in ascending reference order.
C8_Positions ==
    (ret # Idle /\ ret.fn = "get_alignment_exon_positions") =>
        LET c == arg.rec.cigar
            k == Cardinality(NIdx(c))
            out == ret.exons
        IN  /\ Len(out) = k + 1
            /\ out[1].start = arg.rec.beginPos
            /\ \A i \in 1..(k + 1) :
                  out[i].end = out[i].start
                                + RefLen(c, NthN(c, i - 1) + 1, NthN(c, i) - 1)
            /\ \A i \in 1..k :
                  /\ out[i + 1].start = out[i].end + c[NthN(c, i)].count
                  /\ out[i].end <= out[i + 1].start

\* witness of C8: a CIGAR with two N operations, a reference-consuming
\* operation and a non-consuming one has been split in three
C8_Witness ==
    /\ ret # Idle
    /\ ret.fn = "get_alignment_exon_positions"
    /\ Cardinality(NIdx(arg.rec.cigar)) = 2
    /\ \E i \in 1..Len(arg.rec.cigar) : arg.rec.cigar[i].operation \in OtherOps
    /\ Len(ret.exons) = 3

(***************************************************************************)
(* The sharded reader: readSAM shards one SAM/BAM file by record offset    *)
(* over nthreads workers (readSAMHelp), each with its own file handle.     *)
(***************************************************************************)
MaxLines == 4
MaxThreads == 3
FileNumbers == {0, 1}

\* unmatched_outfile: empty when no unmatched output is asked for
UnmatchedNames == {"", "u.sam"}

\* the records a file is made of: a/1 (EC [0,1]) and a/2 (EC [0,1,2]) with
\* the mate on the same contig, b/1 aligned outside every exon (EC []), and
\* b/2 (EC [0,1]) with its mate on another contig (rID # rNextId)
ReadPool ==
    { [qName |-> <<"a", "/", "1">>, flagLast |-> FALSE, flagUnmapped |-> FALSE,
       flagRC |-> FALSE, rID |-> 0, rNextId |-> 0, beginPos |-> 0, cigar |-> TwoM],
      [qName |-> <<"a", "/", "2">>, flagLast |-> TRUE, flagUnmapped |-> FALSE,
       flagRC |-> TRUE, rID |-> 0, rNextId |-> 0, beginPos |-> 2, cigar |-> TwoM],
      [qName |-> <<"b", "/", "1">>, flagLast |-> FALSE, flagUnmapped |-> FALSE,
       flagRC |-> FALSE, rID |-> 0, rNextId |-> 0, beginPos |-> 6, cigar |-> TwoM],
      [qName |-> <<"b", "/", "2">>, flagLast |-> TRUE, flagUnmapped |-> FALSE,
       flagRC |-> TRUE, rID |-> 0, rNextId |-> 1, beginPos |-> 0, cigar |-> TwoM] }

Files == UNION {[1..n -> ReadPool] : n \in 1..MaxLines}

get_sam_line_count(file) == 1 + (IF Len(file) > 0 THEN Len(file) - 1 ELSE 0)

isdigit(c) == c \in {"0", "1", "2", "3", "4", "5", "6", "7", "8", "9"}

\* a scan that decides on the second QNAME ending in 1, with or without a
\* QNAME ending in 2 before it
RECURSIVE qname_scan_second_one(_, _, _, _)
qname_scan_second_one(file, i, one_seen, two_seen) ==
    IF i > Len(file) THEN TRUE
    ELSE LET qName == file[i].qName
         IN  IF Len(qName) < 2 THEN TRUE
             ELSE IF ~isdigit(qName[Len(qName) - 1])
                  THEN IF qName[Len(qName)] = "1"
                       THEN IF one_seen THEN FALSE
                            ELSE qname_scan_second_one(file, i + 1, TRUE,
                                                       two_seen)
                       ELSE IF qName[Len(qName)] = "2"
                            THEN qname_scan_second_one(file, i + 1, one_seen,
                                                       TRUE)
                            ELSE TRUE
                  ELSE TRUE

\* the QNAME convention scan of readSAM; the value is all_same
RECURSIVE qname_scan(_, _, _, _)
qname_scan(file, i, one_seen, two_seen) ==
    IF i > Len(file) THEN TRUE
    ELSE LET qName == file[i].qName
         IN  IF Len(qName) < 2 THEN TRUE
             ELSE IF ~isdigit(qName[Len(qName) - 1])
                  THEN IF qName[Len(qName)] = "1"
                       THEN IF one_seen /\ two_seen THEN FALSE
                            ELSE qname_scan(file, i + 1, TRUE, two_seen)
                       ELSE IF qName[Len(qName)] = "2"
                            THEN qname_scan(file, i + 1, one_seen, TRUE)
                            ELSE TRUE
                  ELSE TRUE

detect_all_same(file, paired) ==
    IF paired THEN qname_scan(file, 1, FALSE, FALSE) ELSE TRUE

\* qName.substr(0, qName.size() - 2) unless all_same; size() - 2 wraps for a
\* QNAME shorter than 2, and substr then keeps the whole string
read_key(qName, all_same) ==
    IF all_same THEN qName
    ELSE IF Len(qName) >= 2 THEN SubSeq(qName, 1, Len(qName) - 2)
    ELSE qName

shard_start(lines, nthreads, j) == (lines \div nthreads) * j

shard_end(lines, nthreads, j) ==
    IF j < nthreads - 1 THEN (lines \div nthreads) * (j + 1) ELSE lines + 1

\* rec = 0 is the default-constructed record, whose QNAME is empty
qname_of(file, rec) == IF rec = 0 THEN <<>> ELSE file[rec].qName

\* the loop that leaves a read group begun before `start`
RECURSIVE skip_loop(_, _, _, _)
skip_loop(file, all_same, qName, rec) ==
    IF rec < Len(file) /\ qName = read_key(qname_of(file, rec), all_same)
    THEN skip_loop(file, all_same, qName, rec + 1)
    ELSE rec

\* the number of records read when the group loop is entered
first_record(file, all_same, start) ==
    IF start = 0 THEN 1
    ELSE skip_loop(file, all_same,
                   read_key(qname_of(file, start - 1), all_same), start)

\* a filter that drops the record with its mate elsewhere in either mode
keep_record_any_mode(rec, paired) == rec.rID = rec.rNextId

keep_record(rec, paired) == ~(paired /\ rec.rID # rec.rNextId)

push_record(curr, rec) ==
    IF rec.flagLast THEN [curr EXCEPT ![2] = Append(@, rec)]
    ELSE [curr EXCEPT ![1] = Append(@, rec)]

\* the inner loop: the records of one read key, from record number rec
RECURSIVE group_loop(_, _, _, _, _, _, _)
group_loop(file, all_same, paired, qName, rec, line_count, curr) ==
    LET pushed == IF keep_record(file[rec], paired)
                  THEN push_record(curr, file[rec]) ELSE curr
    IN  IF rec = Len(file)
        THEN [curr |-> pushed, rec |-> rec, line_count |-> line_count + 1,
              last |-> rec]
        ELSE IF qName = read_key(file[rec + 1].qName, all_same)
             THEN group_loop(file, all_same, paired, qName, rec + 1,
                             line_count + 1, pushed)
             ELSE [curr |-> pushed, rec |-> rec + 1,
                   line_count |-> line_count + 1, last |-> rec]

Digits == <<"0", "1", "2", "3", "4", "5", "6", "7", "8", "9">>

RECURSIVE to_string(_)
to_string(n) ==
    IF n < 10 THEN Digits[n + 1]
    ELSE to_string(n \div 10) \o Digits[(n % 10) + 1]

RECURSIVE stringEC_loop(_, _, _)
stringEC_loop(EC, i, acc) ==
    IF i > Len(EC) THEN acc
    ELSE stringEC_loop(EC, i + 1, acc \o "," \o to_string(EC[i]))

stringEC(EC) == stringEC_loop(EC, 2, to_string(EC[1]))

(***************************************************************************)
(* TCC_Matrix::inc_TCC, an upsert under the mutex of the row.              *)
(***************************************************************************)
lock_free_always(l, key) == TRUE

lock_free(l, key) == key \notin l

row_count(m, key, col) == IF key \in DOMAIN m THEN m[key][col] ELSE 0

write_count(m, key, col, n) ==
    IF key \in DOMAIN m THEN [m EXCEPT ![key][col] = n]
    ELSE [k \in DOMAIN m \cup {key} |->
            IF k = key THEN [c \in FileNumbers |-> IF c = col THEN n ELSE 0]
            ELSE m[k]]

(***************************************************************************)
(* readSAM and its workers.                                                *)
(***************************************************************************)
\* the unmatched output file holding a header and no record
HeaderOnly == [header |-> TRUE, records |-> <<>>]

\* the unmatched output file as main leaves it before the SAM files are read
sink_of(unmatched_outfile) == IF unmatched_outfile = "" THEN Idle ELSE HeaderOnly

Init ==
    /\ \E f \in Files, n \in 1..MaxThreads, pd \in BOOLEAN, fn \in FileNumbers,
          u \in UnmatchedNames :
          /\ arg = [fn |-> "readSAM", file |-> f, filenumber |-> fn,
                    unmatched_outfile |-> u,
                    nthreads |-> n, rapmap |-> FALSE, paired |-> pd]
          /\ sink = sink_of(u)
    /\ prog = Idle
    /\ ret = Idle
    /\ rsam = [pc |-> "start"]
    /\ threads = <<>>
    /\ matrix = EmptyMatrix
    /\ locks = {}
    /\ calls = EmptyBag
    /\ NoIndexing

\* readSAM up to the launch of the last worker
ReadSAM ==
    /\ arg.fn = "readSAM"
    /\ rsam.pc = "start"
    /\ LET lines == get_sam_line_count(arg.file)
           all_same == detect_all_same(arg.file, arg.paired)
       IN  /\ rsam' = [pc |-> "join", lines |-> lines, rapmap |-> arg.rapmap,
                       all_same |-> all_same, i |-> 0, warnings |-> 0]
           /\ threads' = [j \in 0..(arg.nthreads - 1) |->
                            [pc |-> "begin",
                             start |-> shard_start(lines, arg.nthreads, j),
                             end |-> shard_end(lines, arg.nthreads, j),
                             line_count |-> 0, rec |-> 0, EC |-> <<>>,
                             stringEC |-> "", seen |-> 0, ret |-> 0]]
           \* the header of the unmatched output is written anew
           /\ sink' = sink_of(arg.unmatched_outfile)
    /\ UNCHANGED <<gtf, prog, arg, ret, matrix, locks, calls>>

Running(t) == rsam.pc = "join" /\ t \in DOMAIN threads

\* readSAMHelp from its entry to the group loop
WorkerBegin(t) ==
    /\ Running(t)
    /\ threads[t].pc = "begin"
    /\ IF threads[t].end - threads[t].start <= 1
       THEN threads' = [threads EXCEPT ![t].pc = "done", ![t].ret = -1]
       ELSE LET r == first_record(arg.file, rsam.all_same, threads[t].start)
            IN  threads' = [threads EXCEPT ![t].pc = "loop", ![t].rec = r,
                                           ![t].line_count = r]
    /\ UNCHANGED <<gtf, sink, prog, arg, ret, rsam, matrix, locks, calls>>

\* one pass of the group loop up to the call of inc_TCC
WorkerGroup(t) ==
    /\ Running(t)
    /\ threads[t].pc = "loop"
    /\ threads[t].line_count < threads[t].end
    /\ LET w == threads[t]
           g == group_loop(arg.file, rsam.all_same, arg.paired,
                           read_key(arg.file[w.rec].qName, rsam.all_same),
                           w.rec, w.line_count, <<<<>>, <<>>>>)
           EC == getReadEC(Annotation, g.curr, rsam.rapmap, arg.paired)
       IN  /\ calls' = calls (+) SetToBag({[thread |-> t, first |-> w.rec,
                                            last |-> g.last, curr |-> g.curr]})
           /\ \/ /\ threads' =
                      [threads EXCEPT
                          ![t].rec = g.rec,
                          ![t].line_count = g.line_count,
                          ![t].pc = IF EC = <<>> THEN "loop" ELSE "inc",
                          ![t].EC = EC,
                          ![t].stringEC = IF EC = <<>> THEN "" ELSE stringEC(EC)]
                 /\ rsam' = rsam
              \/ \* curr[1][0] is read with both buckets empty: undefined
                 /\ g.curr = <<<<>>, <<>>>>
                 /\ rsam' = [rsam EXCEPT !.pc = "crashed"]
                 /\ threads' = threads
    /\ UNCHANGED <<gtf, sink, prog, arg, ret, matrix, locks>>

\* inc_TCC: take the mutex of the row and read the counter
IncLock(t) ==
    /\ Running(t)
    /\ threads[t].pc = "inc"
    /\ lock_free(locks, threads[t].stringEC)
    /\ locks' = locks \cup {threads[t].stringEC}
    /\ threads' = [threads EXCEPT
                      ![t].pc = "inc_write",
                      ![t].seen = row_count(matrix, threads[t].stringEC,
                                            arg.filenumber)]
    /\ UNCHANGED <<gtf, sink, prog, arg, ret, rsam, matrix, calls>>

\* inc_TCC: write the counter and release the mutex; the buckets are cleared
IncWrite(t) ==
    /\ Running(t)
    /\ threads[t].pc = "inc_write"
    /\ matrix' = write_count(matrix, threads[t].stringEC, arg.filenumber,
                             threads[t].seen + 1)
    /\ locks' = locks \ {threads[t].stringEC}
    /\ threads' = [threads EXCEPT ![t].pc = "loop", ![t].stringEC = "",
                                  ![t].EC = <<>>, ![t].seen = 0]
    /\ UNCHANGED <<gtf, sink, prog, arg, ret, rsam, calls>>

WorkerReturn(t) ==
    /\ Running(t)
    /\ threads[t].pc = "loop"
    /\ ~(threads[t].line_count < threads[t].end)
    /\ threads' = [threads EXCEPT ![t].pc = "done", ![t].ret = 0]
    /\ UNCHANGED <<gtf, sink, prog, arg, ret, rsam, matrix, locks, calls>>

\* a join that gives up at the first failed worker
ReadSAMJoin_abort ==
    /\ rsam.pc = "join"
    /\ \E t \in DOMAIN threads : threads[t].pc = "done" /\ threads[t].ret = -1
    /\ rsam' = [rsam EXCEPT !.pc = "returned", !.warnings = 1]
    /\ ret' = [fn |-> "readSAM", value |-> -1]
    /\ UNCHANGED <<gtf, sink, prog, arg, threads, matrix, locks, calls>>

\* readSAM's join loop: it waits for every worker in turn, logs each
\* failure and returns 0
ReadSAMJoin ==
    /\ rsam.pc = "join"
    /\ \A t \in DOMAIN threads : threads[t].pc = "done"
    /\ rsam' = [rsam EXCEPT
                   !.pc = "returned", !.i = arg.nthreads,
                   !.warnings = Cardinality({t \in DOMAIN threads :
                                                threads[t].ret = -1})]
    /\ ret' = [fn |-> "readSAM", value |-> 0]
    /\ UNCHANGED <<gtf, sink, prog, arg, threads, matrix, locks, calls>>

Next ==
    \/ ReadSAM
    \/ \E t \in 0..(MaxThreads - 1) : WorkerBegin(t)
    \/ \E t \in 0..(MaxThreads - 1) : WorkerGroup(t)
    \/ \E t \in 0..(MaxThreads - 1) : IncLock(t)
    \/ \E t \in 0..(MaxThreads - 1) : IncWrite(t)
    \/ \E t \in 0..(MaxThreads - 1) : WorkerReturn(t)
    \/ ReadSAMJoin

Spec == Init /\ [][Next]_vars

(***************************************************************************)
(* Claims on the reader.                                                   *)
(***************************************************************************)
Returned == ret # Idle /\ ret.fn = "readSAM"

KeyAt(i) == read_key(arg.file[i].qName, rsam.all_same)

\* the read groups of the file: the maximal runs of records with one key
ReadGroups ==
    {g \in [first : 1..Len(arg.file), last : 1..Len(arg.file)] :
        /\ g.first <= g.last
        /\ \A i \in g.first..g.last : KeyAt(i) = KeyAt(g.first)
        /\ g.first = 1 \/ KeyAt(g.first - 1) # KeyAt(g.first)
        /\ g.last = Len(arg.file) \/ KeyAt(g.last + 1) # KeyAt(g.last)}

CallsOn(g) ==
    {c \in BagToSet(calls) : c.first = g.first /\ c.last = g.last}

\* C1: once readSAM has collected all its workers, every read group of the
\* file has been passed to getReadEC exactly once, by exactly one worker, and
\* nothing but whole read groups has been passed.
C1_EveryGroupOnce ==
    Returned =>
        /\ \A g \in ReadGroups :
              /\ Cardinality(CallsOn(g)) = 1
              /\ \A c \in CallsOn(g) : CopiesIn(c, calls) = 1
        /\ \A c \in BagToSet(calls) :
              [first |-> c.first, last |-> c.last] \in ReadGroups

RECURSIVE GroupBuckets(_, _, _)
GroupBuckets(i, last, curr) ==
    IF i > last THEN curr
    ELSE GroupBuckets(i + 1, last,
                      IF arg.paired /\ arg.file[i].rID # arg.file[i].rNextId
                      THEN curr
                      ELSE IF arg.file[i].flagLast
                           THEN <<curr[1], Append(curr[2], arg.file[i])>>
                           ELSE <<Append(curr[1], arg.file[i]), curr[2]>>)

\* the read EC of a whole read group
GroupEC(g) ==
    getReadEC(Annotation, GroupBuckets(g.first, g.last, <<<<>>, <<>>>>),
              rsam.rapmap, arg.paired)

NonEmptyGroups == {g \in ReadGroups : GroupEC(g) # <<>>}

\* C2: after all workers have completed, the matrix holds exactly one
\* increment per read group with a non-empty read EC, on the row of its EC
\* string and the column of the file, so the counters sum to the number of
\* such read groups.
C2_CountsMatchReads ==
    Returned =>
        /\ DOMAIN matrix = {stringEC(GroupEC(g)) : g \in NonEmptyGroups}
        /\ \A k \in DOMAIN matrix :
              \A c \in FileNumbers :
                  matrix[k][c] =
                      IF c = arg.filenumber
                      THEN Cardinality({g \in NonEmptyGroups :
                                           stringEC(GroupEC(g)) = k})
                      ELSE 0

\* the EC strings one worker hands to inc_TCC when it runs alone
RECURSIVE WorkerKeys(_, _, _, _)
WorkerKeys(rec, line_count, end, acc) ==
    IF line_count < end
    THEN LET g == group_loop(arg.file, rsam.all_same, arg.paired, KeyAt(rec),
                             rec, line_count, <<<<>>, <<>>>>)
             EC == getReadEC(Annotation, g.curr, rsam.rapmap, arg.paired)
         IN  WorkerKeys(g.rec, g.line_count, end,
                        IF EC = <<>> THEN acc ELSE Append(acc, stringEC(EC)))
    ELSE acc

ThreadKeys(t) ==
    IF threads[t].end - threads[t].start <= 1 THEN <<>>
    ELSE LET r == first_record(arg.file, rsam.all_same, threads[t].start)
         IN  WorkerKeys(r, r, threads[t].end, <<>>)

RECURSIVE AddKeys(_, _, _)
AddKeys(m, keys, i) ==
    IF i > Len(keys) THEN m
    ELSE AddKeys(write_count(m, keys[i], arg.filenumber,
                             row_count(m, keys[i], arg.filenumber) + 1),
                 keys, i + 1)

\* the matrix left by the workers run one after the other, worker 0 first
RECURSIVE SequentialMatrix(_, _)
SequentialMatrix(m, t) ==
    IF t >= arg.nthreads THEN m
    ELSE SequentialMatrix(AddKeys(m, ThreadKeys(t), 1), t + 1)

\* C3: whatever the interleaving of the workers' record reads and inc_TCC
\* calls, the matrix readSAM leaves is the one the workers leave when run one
\* after the other: no increment is lost or applied twice.
C3_InterleavingIndependent ==
    Returned => matrix = SequentialMatrix(EmptyMatrix, 0)

\* witness of C3: readSAM returned after two different workers incremented
\* the same row
C3_Witness ==
    /\ Returned
    /\ \E t1, t2 \in DOMAIN threads :
          /\ t1 # t2
          /\ Range(ThreadKeys(t1)) \cap Range(ThreadKeys(t2)) # {}

(***************************************************************************)
(* GTF transcript numbering: get_index_to_seqid reads the GTF files in the *)
(* supplied order, one call of get_index_to_seqid_help per file.  A line   *)
(* is given as get_sequence parses it after lower-casing.                  *)
(***************************************************************************)
MaxGtfLines == 3

\* exon lines of the transcripts (chr1, t1), (chr1, t2) and (chr2, t1), a
\* gene line, which is no exon, and an exon line that fails to parse
GtfLinePool ==
    {[feature |-> "exon", seqname |-> a[1], id |-> a[2], start |-> 1] :
        a \in {<<"chr1", "t1">>, <<"chr1", "t2">>, <<"chr2", "t1">>}}
    \cup {[feature |-> "gene", seqname |-> "chr1", id |-> "", start |-> 1],
          [feature |-> "exon", seqname |-> "", id |-> "t2", start |-> 0]}

GtfFiles == UNION {[1..n -> GtfLinePool] : n \in 0..MaxGtfLines}

GtfLists == UNION {[1..n -> GtfFiles] : n \in {1, 2}}

is_exon(seq) == seq.start # 0 /\ seq.seqname # "" /\ seq.feature = "exon"

\* the new-transcript test with && written for ||
is_new_transcript_both(prev_seqname, prev_id, seq) ==
    prev_seqname # seq.seqname /\ prev_id # seq.id

is_new_transcript(prev_seqname, prev_id, seq) ==
    prev_seqname # seq.seqname \/ prev_id # seq.id

\* map.emplace(key, value): no effect when the key is present
emplace(map, key, value) ==
    IF key \in DOMAIN map THEN map
    ELSE [k \in DOMAIN map \cup {key} |-> IF k = key THEN value ELSE map[k]]

\* the getline loop of get_index_to_seqid_help over one file; st holds
\* prev_seqname, prev_id, transcript_count, map and the history `assigned`
RECURSIVE gtf_line_loop(_, _, _, _)
gtf_line_loop(file, fileno, n, st) ==
    IF n > Len(file) THEN st
    ELSE IF ~is_exon(file[n]) THEN gtf_line_loop(file, fileno, n + 1, st)
    ELSE LET new == is_new_transcript(st.prev_seqname, st.prev_id, file[n])
             count == IF new THEN st.transcript_count + 1
                      ELSE st.transcript_count
         IN  gtf_line_loop(file, fileno, n + 1,
                [prev_seqname |-> IF new THEN file[n].seqname ELSE st.prev_seqname,
                 prev_id |-> IF new THEN file[n].id ELSE st.prev_id,
                 transcript_count |-> count,
                 map |-> emplace(st.map, count, file[n].id),
                 assigned |-> Append(st.assigned,
                                [file |-> fileno, seqname |-> file[n].seqname,
                                 id |-> file[n].id, index |-> count])])

get_index_to_seqid_help(file, fileno, map, transcript_count, assigned) ==
    gtf_line_loop(file, fileno, 1,
                  [prev_seqname |-> "", prev_id |-> "",
                   transcript_count |-> transcript_count, map |-> map,
                   assigned |-> assigned])

\* transcript_count is a uint64_t set to -1: the first increment wraps to 0
InitGTF ==
    /\ \E files \in GtfLists : arg = [fn |-> "get_index_to_seqid", files |-> files]
    /\ ret = Idle
    /\ gtf = [i |-> 1, transcript_count |-> -1, map |-> EmptyMap,
              assigned |-> <<>>]
    /\ NoReader
    /\ NoMain

\* one pass of get_index_to_seqid's loop over the files
GetIndexToSeqidHelp ==
    /\ arg.fn = "get_index_to_seqid"
    /\ ret = Idle
    /\ gtf.i <= Len(arg.files)
    /\ LET st == get_index_to_seqid_help(arg.files[gtf.i], gtf.i, gtf.map,
                                         gtf.transcript_count, gtf.assigned)
       IN  gtf' = [i |-> gtf.i + 1, transcript_count |-> st.transcript_count,
                   map |-> st.map, assigned |-> st.assigned]
    /\ UNCHANGED <<sink, prog, arg, ret, readerVars>>

GetIndexToSeqidReturn ==
    /\ arg.fn = "get_index_to_seqid"
    /\ ret = Idle
    /\ gtf.i > Len(arg.files)
    /\ ret' = [fn |-> arg.fn, value |-> 0]
    /\ UNCHANGED <<sink, prog, arg, gtf, readerVars>>

NextGTF == GetIndexToSeqidHelp \/ GetIndexToSeqidReturn

SpecGTF == InitGTF /\ [][NextGTF]_vars

IndexReturned == ret # Idle /\ ret.fn = "get_index_to_seqid"

SameTuple(x, y) == x.seqname = y.seqname /\ x.id = y.id

\* the first exon line carrying the tuple of exon line n
FirstOf(n) ==
    CHOOSE m \in 1..n :
        /\ SameTuple(gtf.assigned[m], gtf.assigned[n])
        /\ \A k \in 1..(m - 1) : ~SameTuple(gtf.assigned[k], gtf.assigned[n])

\* the exon lines, up to line n, that are the first of their tuple
FirstsUpTo(n) == {m \in 1..n : FirstOf(m) = m}

RunStart(n) ==
    \/ n = 1
    \/ gtf.assigned[n].file # gtf.assigned[n - 1].file
    \/ ~SameTuple(gtf.assigned[n], gtf.assigned[n - 1])

MaxFastaLines == 2

TRANSCRIPT_NAME_END_CHAR == "."

\* string::npos, the unsigned value written -1: no length reaches it, nor
\* npos - 1
npos == -1

\* the headers >T1.1, >t2 (no end character) and >t3.2, a sequence line and
\* an empty line
FastaLinePool ==
    { <<">", "T", "1", ".", "1">>, <<">", "t", "2">>,
      <<">", "t", "3", ".", "2">>, <<"A", "C">>, <<>> }

FastaFiles == UNION {[1..n -> FastaLinePool] : n \in 0..MaxFastaLines}

\* one FASTA file, or a FASTA file followed by a file holding >t2
FastaLists ==
    {<<f>> : f \in FastaFiles}
    \cup {<<f, <<<<">", "t", "2">>>> >> : f \in FastaFiles}

\* one GTF file of exon lines
ExonLineFiles ==
    UNION {[1..n -> {l \in GtfLinePool : l.start # 0 /\ l.feature = "exon"}] :
              n \in 0..MaxGtfLines}

tolower(c) == IF c = "T" THEN "t" ELSE c

lower_chars(inp) == [i \in 1..Len(inp) |-> tolower(inp[i])]

\* string::find(char): the offset of the first occurrence, or npos
RECURSIVE find(_, _, _)
find(inp, c, i) ==
    IF i > Len(inp) THEN npos
    ELSE IF inp[i] = c THEN i - 1 ELSE find(inp, c, i + 1)

\* string::substr(pos, count), count clipped to the end of the string; a
\* negative count stands for an unsigned value next to npos
substr(inp, pos, count) ==
    SubSeq(inp, pos + 1,
           IF count < 0 \/ pos + count > Len(inp) THEN Len(inp)
           ELSE pos + count)

RECURSIVE str(_)
str(chars) == IF chars = <<>> THEN "" ELSE chars[1] \o str(Tail(chars))

\* the key of a header line with the end character kept
header_id_whole(inp) == str(substr(lower_chars(inp), 1, npos - 1))

\* the key a header line is filed under: the text after '>' up to the first
\* end character, lower-cased
header_id(inp) ==
    LET low == lower_chars(inp)
        first_space == find(low, TRANSCRIPT_NAME_END_CHAR, 1)
    IN  str(substr(low, 1, first_space - 1))

RECURSIVE fasta_line_loop(_, _, _)
fasta_line_loop(file, n, st) ==
    IF n > Len(file) THEN st
    ELSE IF Len(file[n]) = 0 \/ file[n][1] # ">"
         THEN fasta_line_loop(file, n + 1, st)
    ELSE fasta_line_loop(file, n + 1,
            [transcript_count |-> st.transcript_count + 1,
             map |-> emplace(st.map, header_id(file[n]),
                             st.transcript_count + 1)])

get_id_to_kallisto_index_help(file, map, transcript_count) ==
    fasta_line_loop(file, 1, [transcript_count |-> transcript_count,
                              map |-> map])

RECURSIVE id_file_loop(_, _, _)
id_file_loop(files, i, st) ==
    IF i > Len(files) THEN st
    ELSE id_file_loop(files, i + 1,
            get_id_to_kallisto_index_help(files[i], st.map,
                                          st.transcript_count))

\* transcript_count starts at -1; the value returned is the last index given
get_id_to_kallisto_index(files) ==
    id_file_loop(files, 1, [transcript_count |-> -1, map |-> EmptyMap])

RECURSIVE seqid_file_loop(_, _, _)
seqid_file_loop(files, i, st) ==
    IF i > Len(files) THEN st
    ELSE seqid_file_loop(files, i + 1,
            get_index_to_seqid_help(files[i], i, st.map, st.transcript_count,
                                    st.assigned))

get_index_to_seqid(files) ==
    seqid_file_loop(files, 1, [transcript_count |-> -1, map |-> EmptyMap,
                               assigned |-> <<>>]).map

InitKallisto ==
    /\ \E g \in ExonLineFiles, t \in FastaLists :
          arg = [fn |-> "get_index_to_kallisto_index", gtf |-> <<g>>,
                 transcriptome |-> t]
    /\ ret = Idle
    /\ gtf = [pc |-> "m1"]
    /\ NoReader
    /\ NoMain

\* m1: GTF transcript number -> transcript_id
GetIndexToSeqid ==
    /\ arg.fn = "get_index_to_kallisto_index"
    /\ gtf.pc = "m1"
    /\ gtf' = [pc |-> "m2", m1 |-> get_index_to_seqid(arg.gtf)]
    /\ UNCHANGED <<sink, prog, arg, ret, readerVars>>

\* m2: FASTA identifier -> kallisto index; with no header at all the value
\* returned is -1 and get_index_to_kallisto_index returns 1
GetIdToKallistoIndex ==
    /\ arg.fn = "get_index_to_kallisto_index"
    /\ gtf.pc = "m2"
    /\ LET r == get_id_to_kallisto_index(arg.transcriptome)
       IN  IF r.transcript_count = -1
           THEN /\ gtf' = [gtf EXCEPT !.pc = "returned"]
                /\ ret' = [fn |-> arg.fn, value |-> 1]
           ELSE /\ gtf' = [pc |-> "match", m1 |-> gtf.m1, m2 |-> r.map,
                           index |-> r.transcript_count, visited |-> {},
                           unfound |-> <<>>, map |-> EmptyMap]
                /\ ret' = ret
    /\ UNCHANGED <<sink, prog, arg, readerVars>>

\* one pass of the loop over m1; the order in which an unordered_map is
\* walked is unspecified
MatchTranscript(it) ==
    /\ arg.fn = "get_index_to_kallisto_index"
    /\ gtf.pc = "match"
    /\ it \in DOMAIN gtf.m1 \ gtf.visited
    /\ IF gtf.m1[it] \in DOMAIN gtf.m2
       THEN gtf' = [gtf EXCEPT !.visited = @ \cup {it},
                               !.map = emplace(@, it, gtf.m2[gtf.m1[it]])]
       ELSE gtf' = [gtf EXCEPT !.visited = @ \cup {it},
                               !.unfound = Append(@, it)]
    /\ UNCHANGED <<sink, prog, arg, ret, readerVars>>

RECURSIVE unfound_loop(_, _, _, _)
unfound_loop(unfound, i, index, map) ==
    IF i > Len(unfound) THEN map
    ELSE unfound_loop(unfound, i + 1, index + 1, emplace(map, unfound[i], index))

\* the loop over unfound, and the return
AppendUnfound ==
    /\ arg.fn = "get_index_to_kallisto_index"
    /\ gtf.pc = "match"
    /\ gtf.visited = DOMAIN gtf.m1
    /\ gtf' = [gtf EXCEPT !.pc = "returned",
                          !.map = unfound_loop(gtf.unfound, 1, gtf.index, @)]
    /\ ret' = [fn |-> arg.fn, value |-> 0]
    /\ UNCHANGED <<sink, prog, arg, readerVars>>

NextKallisto ==
    \/ GetIndexToSeqid
    \/ GetIdToKallistoIndex
    \/ \E it \in 0..MaxGtfLines : MatchTranscript(it)
    \/ AppendUnfound

SpecKallisto == InitKallisto /\ [][NextKallisto]_vars

Reconciled ==
    ret # Idle /\ ret.fn = "get_index_to_kallisto_index" /\ ret.value = 0

\* the header lines of the FASTA files, in FASTA order across the files
RECURSIVE HeaderLines(_, _)
HeaderLines(files, i) ==
    IF i > Len(files) THEN <<>>
    ELSE SelectSeq(files[i], LAMBDA l : l # <<>> /\ l[1] = ">")
         \o HeaderLines(files, i + 1)

Headers == HeaderLines(arg.transcriptome, 1)

\* the identifier of a header: the text between '>' and the first '.', in
\* lower case as the transcript_ids are
RECURSIVE IdentifierOf(_, _)
IdentifierOf(line, i) ==
    IF i > Len(line) \/ line[i] = "." THEN ""
    ELSE (IF line[i] = "T" THEN "t" ELSE line[i]) \o IdentifierOf(line, i + 1)

\* the zero-based positions of the headers that carry the identifier id
PositionsOf(id) == {p - 1 : p \in {q \in 1..Len(Headers) :
                                       IdentifierOf(Headers[q], 2) = id}}

Matched(i) == PositionsOf(gtf.m1[i]) # {}

C12_UnmatchedAfterFasta ==
    Reconciled =>
        \A i \in DOMAIN gtf.m1 :
            ~Matched(i) =>
                /\ i \in DOMAIN gtf.map
                /\ gtf.map[i] > Len(Headers) - 1
                /\ \A j \in DOMAIN gtf.m1 :
                      (j # i /\ ~Matched(j)) => gtf.map[j] # gtf.map[i]

\* C13: the new indices of the GTF-only transcripts follow the GTF order: a
\* smaller GTF transcript number gets a smaller final index.
C13_UnmatchedInGtfOrder ==
    Reconciled =>
        \A a, b \in DOMAIN gtf.m1 :
            (a < b /\ ~Matched(a) /\ ~Matched(b)) => gtf.map[a] < gtf.map[b]

(***************************************************************************)
(* Claims on the unmatched output, the EC strings and the record filter of *)
(* the reader.                                                             *)
(***************************************************************************)
InSink(rec) ==
    sink # Idle /\ \E k \in 1..Len(sink.records) : sink.records[k] = rec

\* C14: with an unmatched output configured, once readSAM has returned the
\* records of the read groups whose read EC is [] are in the unmatched
\* output, and no record of a read group with a non-empty EC is.
C14_UnmatchedToSink ==
    (Returned /\ arg.unmatched_outfile # "") =>
        \A g \in ReadGroups :
            \A i \in g.first..g.last :
                InSink(arg.file[i]) <=> (GroupEC(g) = <<>>)

(***************************************************************************)
(* main: argument check, preflight, readGTFs, the header of the unmatched  *)
(* output, readSAMs, the matrix files and the .cells file.  Whether a file *)
(* opens, and what readGTFs, readSAMs and the TCC_Matrix writers return,   *)
(* is the environment's choice at each step.  A path is a sequence of      *)
(* characters.                                                             *)
(***************************************************************************)
SamPaths ==
    { <<"x", ".", "s", "a", "m">>, <<"d", "/", "y", ".", "b", "a", "m">>,
      <<"z">> }

SamFileLists ==
    {<<>>} \cup {<<a>> : a \in SamPaths}
    \cup {<<a, b>> : a \in SamPaths, b \in SamPaths}

\* what the command line can hold after getopt
Arguments ==
    [fn : {"main"}, gtf_files : {<<>>, <<"a.gtf">>}, sam_files : SamFileLists,
     unmatched_out : UnmatchedNames, transcriptome_files : {<<>>, <<"t.fa">>},
     kallisto_ec : {"", "k.ec"}, out_name : {"out"}, full : {0, 1}]

\* the files the preflight tries to open, in the order of the tests
preflight_files(a) ==
    {"gtf", "sam", "out.ec", "out.tsv", "out.cells"}
    \cup (IF a.unmatched_out # "" THEN {"unmatched"} ELSE {})
    \cup (IF a.transcriptome_files # <<>> THEN {"transcriptome"} ELSE {})
    \cup (IF a.kallisto_ec # "" THEN {"kallisto_ec"} ELSE {})

\* the .cells file before main writes it
NoCells == [written |-> FALSE, lines |-> <<>>]

InitMain ==
    /\ arg \in Arguments
    /\ ret = Idle
    /\ prog = [pc |-> "args", err |-> 0, cells |-> NoCells, failed |-> {}]
    /\ sink = Idle
    /\ NoReader
    /\ NoIndexing

Exit(code, stage) ==
    /\ ret' = [fn |-> "main", value |-> code]
    /\ prog' = [prog EXCEPT !.pc = "exited",
                            !.failed = IF stage = "" THEN @ ELSE @ \cup {stage}]

\* must have gtf and sam files
CheckArguments ==
    /\ arg.fn = "main"
    /\ prog.pc = "args"
    /\ IF arg.gtf_files = <<>> \/ arg.sam_files = <<>>
       THEN Exit(1, "arguments")
       ELSE prog' = [prog EXCEPT !.pc = "preflight"] /\ ret' = ret
    /\ UNCHANGED <<gtf, sink, arg, readerVars>>

\* the test_open calls: the first file that fails to open ends main
Preflight ==
    /\ arg.fn = "main"
    /\ prog.pc = "preflight"
    /\ \/ \E f \in preflight_files(arg) : Exit(1, f)
       \/ prog' = [prog EXCEPT !.pc = "readGTFs"] /\ ret' = ret
    /\ UNCHANGED <<gtf, sink, arg, readerVars>>

\* err = readGTFs(...): 1 on failure, else the number of transcripts
ReadGTFs ==
    /\ arg.fn = "main"
    /\ prog.pc = "readGTFs"
    /\ \E err \in {1, 2} :
          IF err = 1 THEN Exit(1, "readGTFs")
          ELSE prog' = [prog EXCEPT !.pc = "header", !.err = err] /\ ret' = ret
    /\ UNCHANGED <<gtf, sink, arg, readerVars>>

\* the header of the unmatched output, when one is asked for
WriteUnmatchedHeader ==
    /\ arg.fn = "main"
    /\ prog.pc = "header"
    /\ IF arg.unmatched_out = ""
       THEN prog' = [prog EXCEPT !.pc = "readSAMs"] /\ ret' = ret /\ sink' = sink
       ELSE \/ Exit(1, "unmatched header") /\ sink' = sink
            \/ Exit(1, "unmatched header") /\ sink' = HeaderOnly
            \/ /\ prog' = [prog EXCEPT !.pc = "readSAMs"]
               /\ ret' = ret
               /\ sink' = HeaderOnly
    /\ UNCHANGED <<gtf, arg, readerVars>>

\* unmatched = readSAMs(...): the value is printed at the end, never tested
ReadSAMs ==
    /\ arg.fn = "main"
    /\ prog.pc = "readSAMs"
    /\ \E ok \in BOOLEAN :
          prog' = [prog EXCEPT !.pc = "write",
                               !.failed = IF ok THEN @ ELSE @ \cup {"readSAMs"}]
    /\ UNCHANGED <<gtf, sink, arg, ret, readerVars>>

\* the .ec and .tsv files: err is the writer's value, or 1 when the EC-order
\* file could not be read
WriteMatrix ==
    /\ arg.fn = "main"
    /\ prog.pc = "write"
    /\ \E order \in {0, 1}, written \in {0, 1} :
          LET err == IF arg.kallisto_ec = "" THEN written
                     ELSE IF order # 1 THEN written ELSE order
              stage == IF arg.kallisto_ec # "" /\ order = 1 THEN {"EC order"}
                       ELSE IF written = 1 THEN {"matrix files"} ELSE {}
          IN  prog' = [prog EXCEPT !.pc = "cells", !.err = err,
                                   !.failed = @ \cup stage]
    /\ UNCHANGED <<gtf, sink, arg, ret, readerVars>>

\* the .cells file, the clean-up and return 0
WriteCells ==
    /\ arg.fn = "main"
    /\ prog.pc = "cells"
    /\ \E is_open \in BOOLEAN :
          /\ ret' = [fn |-> "main", value |-> 0]
          /\ prog' = [prog EXCEPT
                         !.pc = "exited",
                         !.err = IF is_open THEN 0 ELSE 1,
                         !.cells = IF is_open
                                   THEN [written |-> TRUE,
                                         lines |-> arg.sam_files]
                                   ELSE @,
                         !.failed = IF is_open THEN @ ELSE @ \cup {".cells"}]
    /\ UNCHANGED <<gtf, sink, arg, readerVars>>

NextMain ==
    \/ CheckArguments
    \/ Preflight
    \/ ReadGTFs
    \/ WriteUnmatchedHeader
    \/ ReadSAMs
    \/ WriteMatrix
    \/ WriteCells

SpecMain == InitMain /\ [][NextMain]_vars

Exited == ret # Idle /\ ret.fn = "main"

\* C15: main exits with 1 when a stage failed (arguments, preflight,
\* readGTFs, reading the SAM files, reading the EC-order file, writing the
\* outputs) and with 0 only when every stage succeeded.
C15_ExitCode ==
    Exited => /\ ret.value \in {0, 1}
              /\ (ret.value = 0) <=> (prog.failed = {})

\* a path without its trailing .sam or .bam
StripExtension(path) ==
    LET n == Len(path)
    IN  IF n >= 4 /\ SubSeq(path, n - 3, n) \in
                        {<<".", "s", "a", "m">>, <<".", "b", "a", "m">>}
        THEN SubSeq(path, 1, n - 4)
        ELSE path

\* C18: the .cells file holds one line per input SAM/BAM file, in input
\* order, each the file's path without its trailing .sam or .bam.
C18_CellsLines ==
    (Exited /\ prog.cells.written) =>
        /\ Len(prog.cells.lines) = Len(arg.sam_files)
        /\ \A i \in 1..Len(arg.sam_files) :
              prog.cells.lines[i] = StripExtension(arg.sam_files[i])

(***************************************************************************)
(* Paired against unpaired resolution of one read group.                   *)
(***************************************************************************)
\* the read EC of the group under study in the other mode
OtherModeEC == getReadEC(arg.exons, arg.curr, arg.rapmap, ~arg.paired)

\* C16: for every read group, with the same rapmap setting and annotation,
\* the EC getReadEC returns with paired = true is a subset of the EC it
\* returns with paired = false.
C16_PairingNarrows ==
    ReadECReturned =>
        IF arg.paired THEN Range(ret.ec) \subseteq Range(OtherModeEC)
        ELSE Range(OtherModeEC) \subseteq Range(ret.ec)

\* witness of C16: a paired read group with mapped alignments in both
\* segments whose ECs differ got a non-empty EC
C16_Witness ==
    /\ ReadECReturned
    /\ arg.paired
    /\ HasMapped(arg.curr[1])
    /\ HasMapped(arg.curr[2])
    /\ SegmentUnion(arg.exons, arg.curr[1], arg.rapmap)
          # SegmentUnion(arg.exons, arg.curr[2], arg.rapmap)
    /\ ret.ec # <<>>

(***************************************************************************)
(* The keys handed to inc_TCC.                                             *)
(***************************************************************************)
RECURSIVE Decimal(_)
Decimal(n) ==
    LET d == CASE n % 10 = 0 -> "0" [] n % 10 = 1 -> "1" [] n % 10 = 2 -> "2"
               [] n % 10 = 3 -> "3" [] n % 10 = 4 -> "4" [] n % 10 = 5 -> "5"
               [] n % 10 = 6 -> "6" [] n % 10 = 7 -> "7" [] n % 10 = 8 -> "8"
               [] OTHER -> "9"
    IN  IF n < 10 THEN d ELSE Decimal(n \div 10) \o d

Min(S) == CHOOSE x \in S : \A y \in S : x <= y

\* the comma-separated decimal encoding of a non-empty set of transcript
\* indices, in ascending order
RECURSIVE CanonicalKey(_)
CanonicalKey(S) ==
    IF Cardinality(S) = 1 THEN Decimal(Min(S))
    ELSE Decimal(Min(S)) \o "," \o CanonicalKey(S \ {Min(S)})

InIncTCC(t) == threads[t].pc \in {"inc", "inc_write"}

\* C17: every key passed to inc_TCC is the comma-separated decimal encoding
\* of a non-empty, strictly ascending, duplicate-free list of transcript
\* indices, fixed by the read EC as a set; so are the rows of the matrix.
C17_CanonicalKeys ==
    /\ \A t \in DOMAIN threads :
          InIncTCC(t) =>
              /\ threads[t].EC # <<>>
              /\ StrictlyAscending(threads[t].EC)
              /\ threads[t].stringEC = CanonicalKey(Range(threads[t].EC))
    /\ \A k \in DOMAIN matrix :
          \E S \in SUBSET {0, 1, 2} : S # {} /\ k = CanonicalKey(S)

\* witness of C17: a worker is in inc_TCC for a read group of two alignments
\* with common transcripts, with a key of two transcripts or more
C17_Witness ==
    \E t \in DOMAIN threads :
        /\ InIncTCC(t)
        /\ Len(threads[t].EC) >= 2
        /\ \E c \in BagToSet(calls) :
              /\ c.thread = t
              /\ c.last + 1 = threads[t].rec
              /\ Len(c.curr[1]) = 2
              /\ getEC(Annotation, c.curr[1][1]) = getEC(Annotation, c.curr[1][2])

(***************************************************************************)
(* The QNAME convention scan alone: the QNAMEs of a file, the scan, and    *)
(* the read key of every record.                                           *)
(***************************************************************************)
MaxQnames == 4

\* a/1, a/2, b/1, and the non-conforming x (shorter than 2), r11 (digit
\* before the last character) and a/3 (last character neither 1 nor 2)
QnamePool ==
    { <<"a", "/", "1">>, <<"a", "/", "2">>, <<"b", "/", "1">>, <<"x">>,
      <<"r", "1", "1">>, <<"a", "/", "3">> }

QnameFiles ==
    UNION {[1..n -> [qName : QnamePool]] : n \in 0..MaxQnames}

InitScan ==
    /\ \E f \in QnameFiles, pd \in BOOLEAN :
          arg = [fn |-> "detect_all_same", file |-> f, paired |-> pd]
    /\ ret = Idle
    /\ NoReader
    /\ NoMain
    /\ NoIndexing

CallScan ==
    /\ arg.fn = "detect_all_same"
    /\ ret = Idle
    /\ LET all_same == detect_all_same(arg.file, arg.paired)
       IN  ret' = [fn |-> arg.fn, all_same |-> all_same,
                   keys |-> [i \in 1..Len(arg.file) |->
                                read_key(arg.file[i].qName, all_same)]]
    /\ UNCHANGED <<gtf, sink, prog, arg, readerVars>>

NextScan == CallScan

SpecScan == InitScan /\ [][NextScan]_vars

Scanned == ret # Idle /\ ret.fn = "detect_all_same"

QnameAt(i) == arg.file[i].qName

\* the last character of QNAME i is c and the one before it is no digit
EndsIn(i, c) ==
    LET q == QnameAt(i)
    IN  /\ Len(q) >= 2
        /\ q[Len(q) - 1] \notin {"0", "1", "2", "3", "4", "5", "6", "7", "8", "9"}
        /\ q[Len(q)] = c

NonConforming(i) == ~EndsIn(i, "1") /\ ~EndsIn(i, "2")

AllConformingUpTo(k) == \A i \in 1..k : ~NonConforming(i)

\* the key the claim gives a record
ClaimedKey(i) ==
    IF ret.all_same THEN QnameAt(i)
    ELSE SubSeq(QnameAt(i), 1, Len(QnameAt(i)) - 2)

KeysAsClaimed ==
    \A i \in 1..Len(arg.file) :
        Len(QnameAt(i)) >= 2 => ret.keys[i] = ClaimedKey(i)

\* C19: in paired mode the scan ends with all_same = false as soon as a
\* QNAME ending in 1 after a non-digit is followed by another such QNAME,
\* and with all_same = true when a non-conforming QNAME is hit first; in
\* unpaired mode all_same is true; the key is the full QNAME when all_same,
\* the QNAME minus its last two characters otherwise.
C19_SecondOneDecides ==
    Scanned =>
        /\ ~arg.paired => ret.all_same
        /\ \A k \in 2..Len(arg.file) :
              (arg.paired /\ AllConformingUpTo(k)
                  /\ EndsIn(k - 1, "1") /\ EndsIn(k, "1")) => ~ret.all_same
        /\ \A k \in 1..Len(arg.file) :
              (arg.paired /\ NonConforming(k)
                  /\ Cardinality({i \in 1..k : EndsIn(i, "1")}) <= 1)
                  => ret.all_same
        /\ KeysAsClaimed

\* QNAME k ends in 1, and a QNAME ending in 1 and one ending in 2 came
\* before it, none before it being non-conforming
ThirdOfPair(k) ==
    /\ AllConformingUpTo(k)
    /\ EndsIn(k, "1")
    /\ \E i \in 1..(k - 1) : EndsIn(i, "1")
    /\ \E j \in 1..(k - 1) : EndsIn(j, "2")

\* C19 as amended: all_same is false exactly in paired mode when, before
\* any non-conforming QNAME and before the end of the file, a QNAME ending
\* in 1 is read after both a QNAME ending in 1 and a QNAME ending in 2 have
\* been read; the key is the full QNAME when all_same (or when the QNAME is
\* shorter than 2), the QNAME minus its last two characters otherwise.
C19_OneTwoOneDecides ==
    Scanned =>
        /\ ret.all_same <=>
              ~(arg.paired /\ \E k \in 1..Len(arg.file) : ThirdOfPair(k))
        /\ KeysAsClaimed
        /\ \A i \in 1..Len(arg.file) :
              Len(QnameAt(i)) < 2 => ret.keys[i] = QnameAt(i)

\* witness of C19: a paired file whose scan ended with all_same = false, and
\* a record of it shorter than 2
C19_Witness ==
    /\ Scanned
    /\ arg.paired
    /\ ~ret.all_same
    /\ \E i \in 1..Len(arg.file) : Len(QnameAt(i)) < 2

(***************************************************************************)
(* The record filter of the worker loop.                                   *)
(***************************************************************************)
\* the records of a getReadEC call, first to last
RecordsOf(c) == SubSeq(arg.file, c.first, c.last)

MateElsewhere(rec) == rec.rID # rec.rNextId

\* C20: in the worker loop every record whose reference differs from its
\* mate's is dropped before bucketing, in paired and in unpaired runs; every
\* other record goes to segment 1 if it carries the last-segment flag and to
\* segment 0 otherwise.
C20_MateElsewhereDropped ==
    \A c \in BagToSet(calls) :
        /\ c.curr[1] = SelectSeq(RecordsOf(c),
                         LAMBDA rec : ~MateElsewhere(rec) /\ ~rec.flagLast)
        /\ c.curr[2] = SelectSeq(RecordsOf(c),
                         LAMBDA rec : ~MateElsewhere(rec) /\ rec.flagLast)

\* C20 as amended: in a paired run every record whose reference differs
\* from its mate's is dropped before bucketing, and in an unpaired run no
\* record is dropped; every record kept goes to segment 1 if it carries the
\* last-segment flag and to segment 0 otherwise.
C20_DroppedWhenPaired ==
    \A c \in BagToSet(calls) :
        /\ c.curr[1] = SelectSeq(RecordsOf(c),
                         LAMBDA rec : ~(arg.paired /\ MateElsewhere(rec))
                                      /\ ~rec.flagLast)
        /\ c.curr[2] = SelectSeq(RecordsOf(c),
                         LAMBDA rec : ~(arg.paired /\ MateElsewhere(rec))
                                      /\ rec.flagLast)

\* witness of C20: in a paired run a read group of two records lost the
\* record with its mate elsewhere and kept the other
C20_Witness ==
    /\ arg.paired
    /\ \E c \in BagToSet(calls) :
          /\ c.first < c.last
          /\ \E i \in c.first..c.last : MateElsewhere(arg.file[i])
          /\ Len(c.curr[1]) + Len(c.curr[2]) = 1

(***************************************************************************)
(* The reader when opening the file can fail: in readSAM before the launch *)
(* (get_sam_line_count or seqan::open), and in a worker.  The matrix may   *)
(* hold the counts of the file read before.                                *)
(***************************************************************************)
\* the matrix after a file 0 with one read of EC [0,1]
PriorMatrix ==
    [k \in {"0,1"} |-> [c \in FileNumbers |-> IF c = 0 THEN 1 ELSE 0]]

InitOpen ==
    /\ \E f \in Files, n \in 1..MaxThreads, pd \in BOOLEAN,
          m \in {EmptyMatrix, PriorMatrix} :
          /\ arg = [fn |-> "readSAM", file |-> f, filenumber |-> 1,
                    unmatched_outfile |-> "", prior |-> m,
                    nthreads |-> n, rapmap |-> FALSE, paired |-> pd]
          /\ matrix = m
    /\ sink = Idle
    /\ prog = Idle
    /\ ret = Idle
    /\ rsam = [pc |-> "start"]
    /\ threads = <<>>
    /\ locks = {}
    /\ calls = EmptyBag
    /\ NoIndexing

\* readSAM returns -1: the line count is -1, or the file does not open
ReadSAMOpenFails ==
    /\ arg.fn = "readSAM"
    /\ rsam.pc = "start"
    /\ \E cause \in {"get_sam_line_count", "open"} :
          rsam' = [pc |-> "returned", failed |-> cause]
    /\ ret' = [fn |-> "readSAM", value |-> -1]
    /\ UNCHANGED <<gtf, sink, prog, arg, threads, matrix, locks, calls>>

\* readSAMHelp returns -1: the worker's own handle does not open
WorkerOpenFails(t) ==
    /\ Running(t)
    /\ threads[t].pc = "begin"
    /\ ~(threads[t].end - threads[t].start <= 1)
    /\ threads' = [threads EXCEPT ![t].pc = "done", ![t].ret = -1]
    /\ UNCHANGED <<gtf, sink, prog, arg, ret, rsam, matrix, locks, calls>>

NextOpen ==
    \/ Next
    \/ ReadSAMOpenFails
    \/ \E t \in 0..(MaxThreads - 1) : WorkerOpenFails(t)

SpecOpen == InitOpen /\ [][NextOpen]_vars

\* the matrix with the increments of the workers that returned 0
RECURSIVE CollectedMatrix(_, _)
CollectedMatrix(m, t) ==
    IF t >= arg.nthreads THEN m
    ELSE CollectedMatrix(
            AddKeys(m, IF threads[t].ret = -1 THEN <<>> ELSE ThreadKeys(t), 1),
            t + 1)

\* C21: with failed workers readSAM still collects every worker, keeps the
\* increments of the others, logs one failure per failed worker and returns
\* 0; it returns -1 only when its own line count or open fails, and then no
\* worker is launched and the matrix is unchanged.
C21_WorkerFailureIsolated ==
    Returned =>
        /\ ret.value \in {0, -1}
        /\ ret.value = 0 =>
              /\ DOMAIN threads = 0..(arg.nthreads - 1)
              /\ \A t \in DOMAIN threads : threads[t].pc = "done"
              /\ rsam.warnings = Cardinality({t \in DOMAIN threads :
                                                 threads[t].ret = -1})
              /\ matrix = CollectedMatrix(arg.prior, 0)
        /\ ret.value = -1 =>
              /\ "failed" \in DOMAIN rsam
              /\ threads = <<>>
              /\ matrix = arg.prior

\* witness of C21: readSAM returned 0 after a worker that could not open
\* the file, with a row incremented by another worker
C21_Witness ==
    /\ Returned
    /\ ret.value = 0
    /\ \E t \in DOMAIN threads :
          /\ threads[t].ret = -1
          /\ ~(threads[t].end - threads[t].start <= 1)
    /\ matrix # arg.prior

(***************************************************************************)
(* The @PG program ID: get_sam_pg reads the text lines of the file up to   *)
(* the first alignment line, and readSAM forces rapmap mode on "rapmap".   *)
(* A line is a sequence of characters, its fields separated by tabs.       *)
(***************************************************************************)
MaxHeaderLines == 2

Tab == "\t"

\* the characters of a line, from its tab-separated fields
RECURSIVE tab_separated(_)
tab_separated(fields) ==
    IF Len(fields) = 1 THEN fields[1]
    ELSE fields[1] \o <<Tab>> \o tab_separated(Tail(fields))

PG == <<"@", "P", "G">>
IdRapmap == <<"I", "D", ":", "r", "a", "p", "m", "a", "p">>
IdBwa == <<"I", "D", ":", "b", "w", "a">>
PnX == <<"P", "N", ":", "x">>

\* @PG lines with the ID first, with the ID last, with another ID and with
\* no ID, an @HD line and an alignment line
SamLinePool ==
    { tab_separated(<<PG, IdRapmap, PnX>>), tab_separated(<<PG, PnX, IdRapmap>>),
      tab_separated(<<PG, IdBwa, PnX>>), tab_separated(<<PG, PnX>>),
      tab_separated(<<<<"@", "H", "D">>, <<"V", "N", ":", "1">>>>),
      tab_separated(<<<<"r">>, <<"0">>>>) }

SamTexts == UNION {[1..n -> SamLinePool] : n \in 0..MaxHeaderLines}

\* string::find(string): the offset of the first occurrence, or npos
RECURSIVE find_string(_, _, _)
find_string(inp, pat, i) ==
    IF i + Len(pat) - 1 > Len(inp) THEN npos
    ELSE IF SubSeq(inp, i, i + Len(pat) - 1) = pat THEN i - 1
    ELSE find_string(inp, pat, i + 1)

\* the body of get_sam_pg for an @PG line; "" when a find gives npos
pg_of_line(inp) ==
    LET start == find_string(inp, <<"I", "D", ":">>, 1)
    IN  IF start = npos THEN ""
        ELSE LET end == find(inp, Tab, start + 3 + 1)
             IN  IF end = npos THEN ""
                 ELSE str(substr(inp, start + 3, end - (start + 3)))

RECURSIVE get_sam_pg_loop(_, _)
get_sam_pg_loop(text, n) ==
    IF n > Len(text) THEN ""
    ELSE IF Len(text[n]) # 0 /\ substr(text[n], 0, 3) = PG
         THEN pg_of_line(text[n])
    ELSE IF Len(text[n]) # 0 /\ text[n][1] # "@" THEN ""
    ELSE get_sam_pg_loop(text, n + 1)

get_sam_pg(text) == get_sam_pg_loop(text, 1)

InitPg ==
    /\ \E text \in SamTexts, rm \in BOOLEAN, a \in AlignPool :
          arg = [fn |-> "readSAM", text |-> text, rapmap |-> rm,
                 curr |-> <<<<a>>, <<>>>>]
    /\ ret = Idle
    /\ rsam = [pc |-> "pg"]
    /\ threads = <<>>
    /\ matrix = EmptyMatrix
    /\ locks = {}
    /\ calls = EmptyBag
    /\ NoMain
    /\ NoIndexing

\* string pg = get_sam_pg(file); rapmap = true when it compares equal to
\* "rapmap"
ForceRapmap ==
    /\ "text" \in DOMAIN arg
    /\ rsam.pc = "pg"
    /\ LET pg == get_sam_pg(arg.text)
       IN  rsam' = [pc |-> "launched", pg |-> pg,
                    rapmap |-> IF pg = "rapmap" THEN TRUE ELSE arg.rapmap]
    /\ UNCHANGED <<gtf, sink, prog, arg, ret, threads, matrix, locks, calls>>

\* the read EC of a read group of the file, in the mode readSAM settled
ResolveGroup ==
    /\ "text" \in DOMAIN arg
    /\ rsam.pc = "launched"
    /\ ret = Idle
    /\ ret' = [fn |-> "getReadEC",
               ec |-> getReadEC(Annotation, arg.curr, rsam.rapmap, FALSE)]
    /\ UNCHANGED <<gtf, sink, prog, arg, rsam, threads, matrix, locks, calls>>

NextPg == ForceRapmap \/ ResolveGroup

SpecPg == InitPg /\ [][NextPg]_vars

\* the tab-separated fields of a line
RECURSIVE FieldsOf(_, _)
FieldsOf(chars, field) ==
    IF chars = <<>> THEN {field}
    ELSE IF Head(chars) = Tab THEN {field} \cup FieldsOf(Tail(chars), <<>>)
    ELSE FieldsOf(Tail(chars), Append(field, Head(chars)))

\* the @PG lines of the header: those before the first alignment line
HeaderPgLines ==
    {n \in 1..Len(arg.text) :
        /\ PG \in FieldsOf(arg.text[n], <<>>)
        /\ \A m \in 1..n : arg.text[m][1] = "@"}

HasRapmapId(n) == IdRapmap \in FieldsOf(arg.text[n], <<>>)

\* C22: readSAM forces rapmap mode when the ID of the @PG line of the
\* header is rapmap, wherever the ID field stands in the line, and leaves
\* the caller's setting otherwise; in rapmap mode the EC of a mapped
\* alignment is [rid].
C22_RapmapForced ==
    (ret # Idle /\ ret.fn = "getReadEC" /\ "text" \in DOMAIN arg) =>
        /\ (HeaderPgLines # {} /\ \A n \in HeaderPgLines : HasRapmapId(n))
              => rsam.rapmap
        /\ (\A n \in HeaderPgLines : ~HasRapmapId(n))
              => rsam.rapmap = arg.rapmap
        /\ (rsam.rapmap /\ ~arg.curr[1][1].flagUnmapped)
              => ret.ec = <<arg.curr[1][1].rID>>

(***************************************************************************)
(* Termination of the reader.  The workers are threads of one process and  *)
(* the join blocks on their futures: as long as a step of readSAM or of a  *)
(* worker is possible, one is taken.                                       *)
(***************************************************************************)
\* one call of readSAM on the first input file, without an unmatched output
InitFair ==
    /\ \E f \in Files, n \in 1..MaxThreads, pd \in BOOLEAN :
          arg = [fn |-> "readSAM", file |-> f, filenumber |-> 0,
                 unmatched_outfile |-> "",
                 nthreads |-> n, rapmap |-> FALSE, paired |-> pd]
    /\ sink = sink_of("")
    /\ prog = Idle
    /\ ret = Idle
    /\ rsam = [pc |-> "start"]
    /\ threads = <<>>
    /\ matrix = EmptyMatrix
    /\ locks = {}
    /\ calls = EmptyBag
    /\ NoIndexing

\* the condition of the group loop: WorkerGroup(t) can take a step, and
\* every such step changes calls
GroupEnabled(t) ==
    /\ Running(t)
    /\ threads[t].pc = "loop"
    /\ threads[t].line_count < threads[t].end

\* every step but a pass of the group loop
NextButGroup ==
    \/ ReadSAM
    \/ \E t \in 0..(MaxThreads - 1) : WorkerBegin(t)
    \/ \E t \in 0..(MaxThreads - 1) : IncLock(t)
    \/ \E t \in 0..(MaxThreads - 1) : IncWrite(t)
    \/ \E t \in 0..(MaxThreads - 1) : WorkerReturn(t)
    \/ ReadSAMJoin

\* weak fairness of every step; that of WorkerGroup(t) is written out with
\* its enabling condition
FairSpec ==
    /\ InitFair
    /\ [][Next]_vars
    /\ WF_vars(NextButGroup)
    /\ \A t \in 0..(MaxThreads - 1) :
          []<>(~GroupEnabled(t)) \/ []<><<WorkerGroup(t)>>_vars

\* no worker is past the end of the file, and a worker in its group loop
\* has read at least one record
WithinFile ==
    \A t \in DOMAIN threads :
        /\ threads[t].rec <= Len(arg.file)
        /\ threads[t].pc \in {"loop", "inc", "inc_write"} => threads[t].rec >= 1

\* C23: for every file with L >= 1 records and every thread count N >= 1
\* no worker reads past the end of the file, every worker eventually
\* returns, and readSAM's join over the N futures eventually returns.
C23_EveryWorkerReturns ==
    /\ []WithinFile
    /\ <>(Returned /\ \A t \in DOMAIN threads : threads[t].pc = "done")

====
